---- MODULE Spec2Model ----
(***************************************************************************)
(* eventstream-go-sdk: the message builders (PublishBuilder,               *)
(* SubscribeBuilder, AuditLogBuilder), AuditLogBuilder.Build with its      *)
(* validation and JSON encoding, SubscribeBuilder.Slug, NewClient, and the *)
(* subscriber engine's commit / dead-letter loop.                          *)
(*                                                                         *)
(* Go values are modelled as follows.  A string is a TLA+ string, an int   *)
(* an integer, a bool a BOOLEAN.  A pointer to a builder is an index in    *)
(* Builders; pb, sb and alb hold the struct each pointer refers to.  A map,*)
(* a slice, a context, a callback and a *AuditLogDiff are references:      *)
(* the builder field holds the address ("nil" for the nil reference) and   *)
(* heap / diffs hold what the address refers to, so that two builders      *)
(* given the same map alias one object, as in Go.                          *)
(***************************************************************************)
EXTENDS Integers, Sequences, FiniteSets, TLC

VARIABLES
    pb,             \* [Builders -> PublishBuilder struct]
    sb,             \* [Builders -> SubscribeBuilder struct]
    alb,            \* [Builders -> AuditLogBuilder struct]
    heap,           \* [map address -> the map's entries], owned by the caller
    diffs,          \* [AuditLogDiff address -> the struct], owned by the caller
    op,             \* the most recent call: its name and its receiver
    ret,            \* what the most recent call returned
    lastArg,        \* <<kind, builder, setter>> -> argument of the latest call
    calls,          \* number of calls made since the initial state
    slugs,          \* per SubscribeBuilder: the latest Slug() call and its result
    slugSeparator,  \* value of kafkaprometheus.SlugSeparator
    eng,            \* the subscriber engine of one registered subscription
    cli,            \* the Client in use and what it has written to standard output
    built           \* per AuditLogBuilder: its latest Build since the last setter call

vars == <<pb, sb, alb, heap, diffs, op, ret, lastArg, calls, slugs,
          slugSeparator, eng, cli, built>>

\* ---- constants of src/eventstream.go ----

eventStreamNull == "none"

eventStreamStdout == "stdout"

eventStreamKafka == "kafka"

actorTypeUser == "USER"

actorTypeClient == "CLIENT"

separator == "."

defaultVersion == 1

dlq == "dlq"

\* kafka.OffsetEnd of confluent-kafka-go (librdkafka's RD_KAFKA_OFFSET_END)
OffsetEnd == -1

\* ---- bounds ----

\* setter calls in one behaviour of SpecSetters
MaxSetterCalls == 2

\* calls in one behaviour of SpecShared
MaxSharedCalls == 2

\* calls in one behaviour of SpecAudit
MaxAuditCalls == 2

\* calls in one behaviour of SpecSlug
MaxSlugCalls == 4

\* setter calls before Register in one behaviour of SpecSub
MaxSubCalls == 2

\* NewClient calls in one behaviour of SpecClient
MaxClientCalls == 2

\* calls in one behaviour of SpecRebuild
MaxRebuildCalls == 3

\* Publish, PublishSync and Register calls in one behaviour
MaxBackendCalls == 3

\* the two builders of each kind a behaviour works with
Builders == {1, 2}

\* ---- Go values, tagged with their type ----

GoString(v) == [t |-> "string", v |-> v]

GoInt(v) == [t |-> "int", v |-> v]

GoBool(v) == [t |-> "bool", v |-> v]

GoRef(v) == [t |-> "ref", v |-> v]

\* ---- constructors ----

NewPublish ==
    [ id |-> "", topic |-> "", eventName |-> "", namespace |-> "",
      parentNamespace |-> "", unionNamespace |-> "", clientID |-> "",
      traceID |-> "", spanContext |-> "", userID |-> "", sessionID |-> "",
      version |-> defaultVersion, eventID |-> 0, eventType |-> 0,
      eventLevel |-> 0, serviceName |-> "", clientIDs |-> "nil",
      targetUserIDs |-> "nil", targetNamespace |-> "", privacy |-> FALSE,
      additionalFields |-> "nil", key |-> "", payload |-> "nil",
      ctx |-> "Background", timeout |-> 0 ]

NewSubscribe ==
    [ topic |-> "", groupID |-> "", groupInstanceID |-> "",
      offset |-> OffsetEnd, callback |-> "nil", eventName |-> "",
      ctx |-> "Background", callbackRaw |-> "nil", sendErrorDLQ |-> FALSE,
      asyncCommitMessage |-> FALSE ]

NewAuditLogBuilder ==
    [ category |-> "", actionName |-> "", ip |-> "", actor |-> "",
      actorType |-> "", clientID |-> "", actorNamespace |-> "",
      objectID |-> "", objectType |-> "", objectNamespace |-> "",
      targetUserID |-> "", deviceID |-> "", content |-> "nil", diff |-> "nil",
      key |-> "", ctx |-> "Background", version |-> defaultVersion ]

\* ---- PublishBuilder setters ----

PublishBuilder_Topic(p, topic) == [p EXCEPT !.topic = topic]

PublishBuilder_EventName(p, eventName) == [p EXCEPT !.eventName = eventName]

PublishBuilder_Namespace(p, namespace) == [p EXCEPT !.namespace = namespace]

PublishBuilder_ParentNamespace(p, parentNamespace) == [p EXCEPT !.parentNamespace = parentNamespace]

PublishBuilder_UnionNamespace(p, unionNamespace) == [p EXCEPT !.unionNamespace = unionNamespace]

PublishBuilder_ClientID(p, clientID) == [p EXCEPT !.clientID = clientID]

PublishBuilder_TraceID(p, traceID) == [p EXCEPT !.traceID = traceID]

\* mutant: SpanContext writes the trace ID
PublishBuilder_SpanContext_WritesTraceID(p, spanID) == [p EXCEPT !.traceID = spanID]

PublishBuilder_SpanContext(p, spanID) == [p EXCEPT !.spanContext = spanID]

PublishBuilder_SessionID(p, sessionID) == [p EXCEPT !.sessionID = sessionID]

PublishBuilder_UserID(p, userID) == [p EXCEPT !.userID = userID]

PublishBuilder_Version(p, version) == [p EXCEPT !.version = version]

PublishBuilder_EventID(p, eventID) == [p EXCEPT !.eventID = eventID]

PublishBuilder_EventType(p, eventType) == [p EXCEPT !.eventType = eventType]

PublishBuilder_EventLevel(p, eventLevel) == [p EXCEPT !.eventLevel = eventLevel]

PublishBuilder_ServiceName(p, serviceName) == [p EXCEPT !.serviceName = serviceName]

PublishBuilder_ClientIDs(p, clientIDs) == [p EXCEPT !.clientIDs = clientIDs]

PublishBuilder_TargetUserIDs(p, targetUserIDs) == [p EXCEPT !.targetUserIDs = targetUserIDs]

PublishBuilder_TargetNamespace(p, targetNamespace) == [p EXCEPT !.targetNamespace = targetNamespace]

PublishBuilder_Privacy(p, privacy) == [p EXCEPT !.privacy = privacy]

PublishBuilder_AdditionalFields(p, additionalFields) == [p EXCEPT !.additionalFields = additionalFields]

PublishBuilder_ID(p, id) == [p EXCEPT !.id = id]

PublishBuilder_Key(p, key) == [p EXCEPT !.key = key]

PublishBuilder_Payload(p, payload) == [p EXCEPT !.payload = payload]

PublishBuilder_Context(p, ctx) == [p EXCEPT !.ctx = ctx]

PublishBuilder_Timeout(p, timeout) == [p EXCEPT !.timeout = timeout]


\* ---- SubscribeBuilder setters ----

SubscribeBuilder_Topic(s, topic) == [s EXCEPT !.topic = topic]

SubscribeBuilder_Offset(s, offset) == [s EXCEPT !.offset = offset]

SubscribeBuilder_GroupID(s, groupID) == [s EXCEPT !.groupID = groupID]

SubscribeBuilder_GroupInstanceID(s, groupInstanceID) == [s EXCEPT !.groupInstanceID = groupInstanceID]

SubscribeBuilder_EventName(s, eventName) == [s EXCEPT !.eventName = eventName]

SubscribeBuilder_Callback(s, callback) == [s EXCEPT !.callback = callback]

SubscribeBuilder_CallbackRaw(s, fn) == [s EXCEPT !.callbackRaw = fn]

SubscribeBuilder_Context(s, ctx) == [s EXCEPT !.ctx = ctx]

\* mutant: SendErrorDLQ drops its argument
SubscribeBuilder_SendErrorDLQ_Ignored(s, dlqOn) == [s EXCEPT !.sendErrorDLQ = FALSE]

SubscribeBuilder_SendErrorDLQ(s, dlqOn) == [s EXCEPT !.sendErrorDLQ = dlqOn]

SubscribeBuilder_AsyncCommitMessage(s, async) == [s EXCEPT !.asyncCommitMessage = async]


\* ---- AuditLogBuilder setters ----

AuditLogBuilder_Category(auditLogBuilder, category) == [auditLogBuilder EXCEPT !.category = category]

AuditLogBuilder_ActionName(auditLogBuilder, actionName) == [auditLogBuilder EXCEPT !.actionName = actionName]

AuditLogBuilder_IP(auditLogBuilder, ip) == [auditLogBuilder EXCEPT !.ip = ip]

AuditLogBuilder_Actor(auditLogBuilder, actor) == [auditLogBuilder EXCEPT !.actor = actor]

\* mutant: IsActorTypeUser without its else branch
AuditLogBuilder_IsActorTypeUser_NoElse(auditLogBuilder, isActorTypeUser) ==
    IF isActorTypeUser
    THEN [auditLogBuilder EXCEPT !.actorType = actorTypeUser]
    ELSE auditLogBuilder

AuditLogBuilder_IsActorTypeUser(auditLogBuilder, isActorTypeUser) ==
    IF isActorTypeUser
    THEN [auditLogBuilder EXCEPT !.actorType = actorTypeUser]
    ELSE [auditLogBuilder EXCEPT !.actorType = actorTypeClient]

AuditLogBuilder_ClientID(auditLogBuilder, clientID) == [auditLogBuilder EXCEPT !.clientID = clientID]

AuditLogBuilder_ActorNamespace(auditLogBuilder, actorNamespace) == [auditLogBuilder EXCEPT !.actorNamespace = actorNamespace]

AuditLogBuilder_ObjectID(auditLogBuilder, objectID) == [auditLogBuilder EXCEPT !.objectID = objectID]

AuditLogBuilder_ObjectType(auditLogBuilder, objectType) == [auditLogBuilder EXCEPT !.objectType = objectType]

AuditLogBuilder_ObjectNamespace(auditLogBuilder, objectNamespace) == [auditLogBuilder EXCEPT !.objectNamespace = objectNamespace]

AuditLogBuilder_TargetUserID(auditLogBuilder, targetUserID) == [auditLogBuilder EXCEPT !.targetUserID = targetUserID]

AuditLogBuilder_DeviceID(auditLogBuilder, deviceID) == [auditLogBuilder EXCEPT !.deviceID = deviceID]

AuditLogBuilder_Content(auditLogBuilder, content) == [auditLogBuilder EXCEPT !.content = content]

AuditLogBuilder_Diff(auditLogBuilder, diff) == [auditLogBuilder EXCEPT !.diff = diff]

AuditLogBuilder_Key(auditLogBuilder, key) == [auditLogBuilder EXCEPT !.key = key]

\* ---- SubscribeBuilder.Slug ----

\* the values kafkaprometheus.SlugSeparator may have
SlugSeparators == {".", "$"}

\* mutant: the group ID before the event name
Slug_GroupBeforeEvent(s) ==
    s.topic \o slugSeparator \o s.groupID \o slugSeparator \o s.eventName

Slug(s) ==
    s.topic \o slugSeparator \o s.eventName \o slugSeparator \o s.groupID

\* ---- NewClient ----

NilClient == [kind |-> "nil", prefix |-> ""]

newBlackholeClient == [kind |-> "BlackholeClient", prefix |-> ""]

newStdoutClient(prefix) == [kind |-> "StdoutClient", prefix |-> prefix]

\* connecting to the brokers succeeds or fails
newKafkaClient(brokers, prefix, config, outcome) ==
    IF outcome = "connected"
    THEN [client |-> [kind |-> "KafkaClient", prefix |-> prefix], err |-> "nil"]
    ELSE [client |-> NilClient, err |-> "kafka client error"]

\* mutant: an unrecognised name selects the no-op client
NewClient_UnknownIsNull(prefix, stream, brokers, config, outcome) ==
    CASE stream = eventStreamStdout ->
            [client |-> newStdoutClient(prefix), err |-> "nil"]
      [] stream = eventStreamKafka ->
            newKafkaClient(brokers, prefix, config, outcome)
      [] OTHER ->
            [client |-> newBlackholeClient, err |-> "nil"]

NewClient(prefix, stream, brokers, config, outcome) ==
    CASE stream = eventStreamNull ->
            [client |-> newBlackholeClient, err |-> "nil"]
      [] stream = eventStreamStdout ->
            [client |-> newStdoutClient(prefix), err |-> "nil"]
      [] stream = eventStreamKafka ->
            newKafkaClient(brokers, prefix, config, outcome)
      [] OTHER ->
            [client |-> NilClient, err |-> "unsupported stream"]

\* ---- the clients without a broker ----
\* c is [client, stdout]: a Client and the lines written to standard output

\* no client constructed yet
NoClient == [client |-> NilClient, stdout |-> <<>>]

\* the nil *PublishBuilder or *SubscribeBuilder
NilBuilder == 0

\* the human-readable line StdoutClient writes for an event
PrintedEvent(prefix, publishBuilder) ==
    [topic |-> prefix \o publishBuilder.topic, eventName |-> publishBuilder.eventName]

\* StdoutClient: Publish and PublishSync write the event and succeed
StdoutClient_Publish(c, publishBuilder) ==
    [err |-> "nil",
     cli |-> [c EXCEPT !.stdout = Append(@, PrintedEvent(c.client.prefix, publishBuilder))]]

StdoutClient_PublishSync(c, publishBuilder) == StdoutClient_Publish(c, publishBuilder)

\* StdoutClient: Register succeeds; no message ever reaches the callback
StdoutClient_Register(c, subscribeBuilder) == [err |-> "nil", cli |-> c]

\* mutant: the no-op client writes the event as StdoutClient does
BlackholeClient_Publish_Prints(c, publishBuilder) == StdoutClient_Publish(c, publishBuilder)

\* BlackholeClient: every operation succeeds and does nothing
BlackholeClient_Publish(c, publishBuilder) == [err |-> "nil", cli |-> c]

BlackholeClient_PublishSync(c, publishBuilder) == [err |-> "nil", cli |-> c]

BlackholeClient_Register(c, subscribeBuilder) == [err |-> "nil", cli |-> c]

\* Client.Publish, Client.PublishSync, Client.Register: dispatch on the
\* implementation NewClient returned
Client_Publish(c, publishBuilder) ==
    IF c.client.kind = "BlackholeClient"
    THEN BlackholeClient_Publish(c, publishBuilder)
    ELSE StdoutClient_Publish(c, publishBuilder)

Client_PublishSync(c, publishBuilder) ==
    IF c.client.kind = "BlackholeClient"
    THEN BlackholeClient_PublishSync(c, publishBuilder)
    ELSE StdoutClient_PublishSync(c, publishBuilder)

Client_Register(c, subscribeBuilder) ==
    IF c.client.kind = "BlackholeClient"
    THEN BlackholeClient_Register(c, subscribeBuilder)
    ELSE StdoutClient_Register(c, subscribeBuilder)

\* ---- maps and diffs the caller passes in ----

EmptyMap == [x \in {} |-> x]

\* a string that is not valid UTF-8 (the single byte 0xFF) and what
\* encoding/json writes in its place (U+FFFD)
InvalidUTF8 == "<0xFF>"

ReplacementChar == "<U+FFFD>"

GoFloat64(v) == [t |-> "float64", v |-> v]

GoChan == [t |-> "chan", v |-> 0]

\* a nil map reads as empty but is a different value from an empty map
NilMap == [nil |-> TRUE, m |-> EmptyMap]

MapAt(h, ref) == IF ref = "nil" THEN NilMap ELSE [nil |-> FALSE, m |-> h[ref]]

MapLen(mv) == Cardinality(DOMAIN mv.m)

\* ---- AuditLog: validation (struct tags of AuditLog) ----

\* the strings of the universe that match uuid4WithoutHyphens
UUID4WithoutHyphens == {"e2c1b3a4f5d64c7b8a9f0e1d2c3b4a5f", "0f8fad5bd9cb469fa16570867728950e"}

Required(v) == v # ""

AuditLogValid(auditLog) ==
    /\ Required(auditLog.ID)
    /\ Required(auditLog.Category)
    /\ Required(auditLog.ActionName)
    /\ auditLog.Timestamp # 0
    /\ Required(auditLog.Actor) /\ auditLog.Actor \in UUID4WithoutHyphens
    /\ Required(auditLog.ActorType)
    /\ Required(auditLog.ClientID) /\ auditLog.ClientID \in UUID4WithoutHyphens
    /\ Required(auditLog.ActorNamespace)
    /\ Required(auditLog.ObjectNamespace)
    /\ (auditLog.TargetUserID # "" => auditLog.TargetUserID \in UUID4WithoutHyphens)
    /\ ~(auditLog.Payload.Content.nil /\ auditLog.Payload.Diff.Before.nil
            /\ auditLog.Payload.Diff.After.nil)

\* validator.ValidateStruct: (valid, err).  How a failure is reported is the
\* validator's choice: with an error, or as not valid without one.
ValidateStruct(auditLog, failureMode) ==
    IF AuditLogValid(auditLog)
    THEN [valid |-> TRUE, err |-> "nil"]
    ELSE IF failureMode = "error"
         THEN [valid |-> FALSE, err |-> "validation error"]
         ELSE [valid |-> FALSE, err |-> "nil"]

\* ---- AuditLog: encoding/json ----

JSONString(v) == [j |-> "string", v |-> IF v = InvalidUTF8 THEN ReplacementChar ELSE v]

JSONNumber(v) == [j |-> "number", v |-> v]

JSONObject(members) == [j |-> "object", v |-> members]

JSONNull == [j |-> "null", v |-> 0]

\* values json.Marshal has an encoding for
Marshalable(goValue) == goValue.t \in {"string", "int", "float64"}

MarshalValue(goValue) ==
    IF goValue.t = "string" THEN JSONString(goValue.v) ELSE JSONNumber(goValue.v)

MarshalableMap(mv) == \A k \in DOMAIN mv.m : Marshalable(mv.m[k])

MarshalMap(mv) ==
    IF mv.nil THEN JSONNull
    ELSE JSONObject([k \in DOMAIN mv.m |-> MarshalValue(mv.m[k])])

\* a member with the omitempty option
OmitEmptyString(name, v) == IF v = "" THEN EmptyMap ELSE name :> JSONString(v)

OmitEmptyMap(name, mv) == IF MapLen(mv) = 0 THEN EmptyMap ELSE name :> MarshalMap(mv)

MarshalDiff(diffValue) ==
    JSONObject(OmitEmptyMap("before", diffValue.Before) @@ OmitEmptyMap("after", diffValue.After))

MarshalPayload(payload) ==
    JSONObject(("content" :> MarshalMap(payload.Content)) @@ ("diff" :> MarshalDiff(payload.Diff)))

\* json.Marshal(auditLog): ok is FALSE when a value has no encoding
Marshal(auditLog) ==
    IF /\ MarshalableMap(auditLog.Payload.Content)
       /\ MarshalableMap(auditLog.Payload.Diff.Before)
       /\ MarshalableMap(auditLog.Payload.Diff.After)
    THEN [ok |-> TRUE,
          json |->
            ("_id" :> JSONString(auditLog.ID))
            @@ ("category" :> JSONString(auditLog.Category))
            @@ ("actionName" :> JSONString(auditLog.ActionName))
            @@ ("timestamp" :> JSONNumber(auditLog.Timestamp))
            @@ OmitEmptyString("ip", auditLog.IP)
            @@ ("actor" :> JSONString(auditLog.Actor))
            @@ ("actorType" :> JSONString(auditLog.ActorType))
            @@ ("clientId" :> JSONString(auditLog.ClientID))
            @@ ("actorNamespace" :> JSONString(auditLog.ActorNamespace))
            @@ OmitEmptyString("objectId", auditLog.ObjectID)
            @@ OmitEmptyString("objectType", auditLog.ObjectType)
            @@ ("objectNamespace" :> JSONString(auditLog.ObjectNamespace))
            @@ OmitEmptyString("targetUserId", auditLog.TargetUserID)
            @@ OmitEmptyString("deviceId", auditLog.DeviceID)
            @@ ("payload" :> MarshalPayload(auditLog.Payload))]
    ELSE [ok |-> FALSE, json |-> EmptyMap]

\* json.Unmarshal into interface{}: a number becomes a float64
UnmarshalValue(jv) ==
    IF jv.j = "string" THEN GoString(jv.v) ELSE GoFloat64(jv.v)

UnmarshalMap(members, name) ==
    IF name \notin DOMAIN members \/ members[name].j = "null"
    THEN NilMap
    ELSE [nil |-> FALSE,
          m |-> [k \in DOMAIN members[name].v |-> UnmarshalValue(members[name].v[k])]]

UnmarshalString(members, name) ==
    IF name \in DOMAIN members THEN members[name].v ELSE ""

\* json.Unmarshal(value, &AuditLog{}): a member that is absent leaves the
\* field at its zero value
Unmarshal(json) ==
    [ ID |-> UnmarshalString(json, "_id"),
      Category |-> UnmarshalString(json, "category"),
      ActionName |-> UnmarshalString(json, "actionName"),
      Timestamp |-> IF "timestamp" \in DOMAIN json THEN json["timestamp"].v ELSE 0,
      IP |-> UnmarshalString(json, "ip"),
      Actor |-> UnmarshalString(json, "actor"),
      ActorType |-> UnmarshalString(json, "actorType"),
      ClientID |-> UnmarshalString(json, "clientId"),
      ActorNamespace |-> UnmarshalString(json, "actorNamespace"),
      ObjectID |-> UnmarshalString(json, "objectId"),
      ObjectType |-> UnmarshalString(json, "objectType"),
      ObjectNamespace |-> UnmarshalString(json, "objectNamespace"),
      TargetUserID |-> UnmarshalString(json, "targetUserId"),
      DeviceID |-> UnmarshalString(json, "deviceId"),
      Payload |->
        [ Content |-> UnmarshalMap(json["payload"].v, "content"),
          Diff |-> [ Before |-> UnmarshalMap(json["payload"].v["diff"].v, "before"),
                     After |-> UnmarshalMap(json["payload"].v["diff"].v, "after") ] ] ]

\* ---- AuditLogBuilder.Build ----

\* kafka.Message{}: no key, no value
EmptyMessage == [Key |-> [nil |-> TRUE, bytes |-> ""], Value |-> [nil |-> TRUE, json |-> EmptyMap]]

\* *auditLogBuilder.diff: the struct a non-nil pointer refers to
DiffAt(h, d, ref) ==
    IF ref = "nil"
    THEN [Before |-> NilMap, After |-> NilMap]
    ELSE [Before |-> MapAt(h, d[ref].Before), After |-> MapAt(h, d[ref].After)]

\* mutant: ObjectType is read from objectID
BuildAuditLog_ObjectTypeFromID(auditLogBuilder, h, d, id, now) ==
    [ ID |-> id,
      Category |-> auditLogBuilder.category,
      ActionName |-> auditLogBuilder.actionName,
      Timestamp |-> now,
      IP |-> auditLogBuilder.ip,
      Actor |-> auditLogBuilder.actor,
      ActorType |-> auditLogBuilder.actorType,
      ClientID |-> auditLogBuilder.clientID,
      ActorNamespace |-> auditLogBuilder.actorNamespace,
      ObjectID |-> auditLogBuilder.objectID,
      ObjectType |-> auditLogBuilder.objectID,
      ObjectNamespace |-> auditLogBuilder.objectNamespace,
      TargetUserID |-> auditLogBuilder.targetUserID,
      DeviceID |-> auditLogBuilder.deviceID,
      Payload |->
        [ Content |-> IF auditLogBuilder.content = "nil"
                      THEN [nil |-> FALSE, m |-> EmptyMap]
                      ELSE MapAt(h, auditLogBuilder.content),
          Diff |-> DiffAt(h, d, auditLogBuilder.diff) ] ]

\* the AuditLog that Build assembles from the builder
BuildAuditLog(auditLogBuilder, h, d, id, now) ==
    [ ID |-> id,
      Category |-> auditLogBuilder.category,
      ActionName |-> auditLogBuilder.actionName,
      Timestamp |-> now,
      IP |-> auditLogBuilder.ip,
      Actor |-> auditLogBuilder.actor,
      ActorType |-> auditLogBuilder.actorType,
      ClientID |-> auditLogBuilder.clientID,
      ActorNamespace |-> auditLogBuilder.actorNamespace,
      ObjectID |-> auditLogBuilder.objectID,
      ObjectType |-> auditLogBuilder.objectType,
      ObjectNamespace |-> auditLogBuilder.objectNamespace,
      TargetUserID |-> auditLogBuilder.targetUserID,
      DeviceID |-> auditLogBuilder.deviceID,
      Payload |->
        [ Content |-> IF auditLogBuilder.content = "nil"
                      THEN [nil |-> FALSE, m |-> EmptyMap]
                      ELSE MapAt(h, auditLogBuilder.content),
          Diff |-> DiffAt(h, d, auditLogBuilder.diff) ] ]

\* mutant: Build clears the builder it was called on
AuditLogBuilder_Build_ClearsBuilder(auditLogBuilder, h, d, id, now, failureMode) ==
    LET auditLog == BuildAuditLog(auditLogBuilder, h, d, id, now)
        validation == ValidateStruct(auditLog, failureMode)
        marshalled == Marshal(auditLog)
        result ==
            IF validation.err # "nil"
            THEN [msg |-> EmptyMessage, err |-> validation.err]
            ELSE IF ~validation.valid
            THEN [msg |-> EmptyMessage, err |-> "errInvalidPubStruct"]
            ELSE IF ~marshalled.ok
            THEN [msg |-> EmptyMessage, err |-> "marshal error"]
            ELSE [msg |-> [Key |-> [nil |-> FALSE, bytes |-> auditLogBuilder.key],
                           Value |-> [nil |-> FALSE, json |-> marshalled.json]],
                  err |-> "nil"]
    IN  [result |-> result, self |-> NewAuditLogBuilder, heap |-> h]

\* mutant: Build writes the generated ID into the content map it was given
AuditLogBuilder_Build_WritesContent(auditLogBuilder, h, d, id, now, failureMode) ==
    [result |-> [msg |-> EmptyMessage, err |-> "nil"],
     self |-> auditLogBuilder,
     heap |-> IF auditLogBuilder.content = "nil" THEN h
              ELSE [h EXCEPT ![auditLogBuilder.content] = ("_id" :> GoString(id)) @@ @]]

\* mutant: Build without the check of the validator's verdict
AuditLogBuilder_Build_IgnoresVerdict(auditLogBuilder, h, d, id, now, failureMode) ==
    LET auditLog == BuildAuditLog(auditLogBuilder, h, d, id, now)
        validation == ValidateStruct(auditLog, failureMode)
        marshalled == Marshal(auditLog)
        result ==
            IF validation.err # "nil"
            THEN [msg |-> EmptyMessage, err |-> validation.err]
            ELSE IF ~marshalled.ok
            THEN [msg |-> EmptyMessage, err |-> "marshal error"]
            ELSE [msg |-> [Key |-> [nil |-> FALSE, bytes |-> auditLogBuilder.key],
                           Value |-> [nil |-> FALSE, json |-> marshalled.json]],
                  err |-> "nil"]
    IN  [result |-> result, self |-> auditLogBuilder, heap |-> h]

\* Build's results (the message and the error) and what it leaves of the
\* builder and of the caller's maps: it writes to neither
AuditLogBuilder_Build(auditLogBuilder, h, d, id, now, failureMode) ==
    LET auditLog == BuildAuditLog(auditLogBuilder, h, d, id, now)
        validation == ValidateStruct(auditLog, failureMode)
        marshalled == Marshal(auditLog)
        result ==
            IF validation.err # "nil"
            THEN [msg |-> EmptyMessage, err |-> validation.err]
            ELSE IF ~validation.valid
            THEN [msg |-> EmptyMessage, err |-> "errInvalidPubStruct"]
            ELSE IF ~marshalled.ok
            THEN [msg |-> EmptyMessage, err |-> "marshal error"]
            ELSE [msg |-> [Key |-> [nil |-> FALSE, bytes |-> auditLogBuilder.key],
                           Value |-> [nil |-> FALSE, json |-> marshalled.json]],
                  err |-> "nil"]
    IN  [result |-> result, self |-> auditLogBuilder, heap |-> h]

\* ---- calls ----

NoCall == [name |-> "none", kind |-> "none", recv |-> 0, arg |-> GoRef("nil")]

NoReturn == [t |-> "none"]

\* no Build since the last setter call
NoBuild == [done |-> FALSE, n |-> 0]

\* a setter: assigns the one field (nb is the struct after the assignment)
\* and returns its receiver
SetterCall(kind, i, name, arg, nb) ==
    /\ pb' = IF kind = "PublishBuilder" THEN [pb EXCEPT ![i] = nb] ELSE pb
    /\ sb' = IF kind = "SubscribeBuilder" THEN [sb EXCEPT ![i] = nb] ELSE sb
    /\ alb' = IF kind = "AuditLogBuilder" THEN [alb EXCEPT ![i] = nb] ELSE alb
    /\ ret' = [t |-> "builder", kind |-> kind, ptr |-> i]
    /\ op' = [name |-> name, kind |-> kind, recv |-> i, arg |-> arg]
    /\ lastArg' = (<<kind, i, name>> :> arg) @@ lastArg
    /\ calls' = calls + 1
    /\ built' = IF kind = "AuditLogBuilder" THEN [built EXCEPT ![i] = NoBuild] ELSE built
    /\ UNCHANGED <<heap, diffs, slugs, slugSeparator, eng, cli>>

Do_PublishBuilder_Topic(i, v) ==
    SetterCall("PublishBuilder", i, "Topic", GoString(v), PublishBuilder_Topic(pb[i], v))

Do_PublishBuilder_EventName(i, v) ==
    SetterCall("PublishBuilder", i, "EventName", GoString(v), PublishBuilder_EventName(pb[i], v))

Do_PublishBuilder_Namespace(i, v) ==
    SetterCall("PublishBuilder", i, "Namespace", GoString(v), PublishBuilder_Namespace(pb[i], v))

Do_PublishBuilder_ParentNamespace(i, v) ==
    SetterCall("PublishBuilder", i, "ParentNamespace", GoString(v), PublishBuilder_ParentNamespace(pb[i], v))

Do_PublishBuilder_UnionNamespace(i, v) ==
    SetterCall("PublishBuilder", i, "UnionNamespace", GoString(v), PublishBuilder_UnionNamespace(pb[i], v))

Do_PublishBuilder_ClientID(i, v) ==
    SetterCall("PublishBuilder", i, "ClientID", GoString(v), PublishBuilder_ClientID(pb[i], v))

Do_PublishBuilder_TraceID(i, v) ==
    SetterCall("PublishBuilder", i, "TraceID", GoString(v), PublishBuilder_TraceID(pb[i], v))

Do_PublishBuilder_SpanContext(i, v) ==
    SetterCall("PublishBuilder", i, "SpanContext", GoString(v), PublishBuilder_SpanContext(pb[i], v))

Do_PublishBuilder_SessionID(i, v) ==
    SetterCall("PublishBuilder", i, "SessionID", GoString(v), PublishBuilder_SessionID(pb[i], v))

Do_PublishBuilder_UserID(i, v) ==
    SetterCall("PublishBuilder", i, "UserID", GoString(v), PublishBuilder_UserID(pb[i], v))

Do_PublishBuilder_Version(i, v) ==
    SetterCall("PublishBuilder", i, "Version", GoInt(v), PublishBuilder_Version(pb[i], v))

Do_PublishBuilder_EventID(i, v) ==
    SetterCall("PublishBuilder", i, "EventID", GoInt(v), PublishBuilder_EventID(pb[i], v))

Do_PublishBuilder_EventType(i, v) ==
    SetterCall("PublishBuilder", i, "EventType", GoInt(v), PublishBuilder_EventType(pb[i], v))

Do_PublishBuilder_EventLevel(i, v) ==
    SetterCall("PublishBuilder", i, "EventLevel", GoInt(v), PublishBuilder_EventLevel(pb[i], v))

Do_PublishBuilder_ServiceName(i, v) ==
    SetterCall("PublishBuilder", i, "ServiceName", GoString(v), PublishBuilder_ServiceName(pb[i], v))

Do_PublishBuilder_ClientIDs(i, v) ==
    SetterCall("PublishBuilder", i, "ClientIDs", GoRef(v), PublishBuilder_ClientIDs(pb[i], v))

Do_PublishBuilder_TargetUserIDs(i, v) ==
    SetterCall("PublishBuilder", i, "TargetUserIDs", GoRef(v), PublishBuilder_TargetUserIDs(pb[i], v))

Do_PublishBuilder_TargetNamespace(i, v) ==
    SetterCall("PublishBuilder", i, "TargetNamespace", GoString(v), PublishBuilder_TargetNamespace(pb[i], v))

Do_PublishBuilder_Privacy(i, v) ==
    SetterCall("PublishBuilder", i, "Privacy", GoBool(v), PublishBuilder_Privacy(pb[i], v))

Do_PublishBuilder_AdditionalFields(i, v) ==
    SetterCall("PublishBuilder", i, "AdditionalFields", GoRef(v), PublishBuilder_AdditionalFields(pb[i], v))

Do_PublishBuilder_ID(i, v) ==
    SetterCall("PublishBuilder", i, "ID", GoString(v), PublishBuilder_ID(pb[i], v))

Do_PublishBuilder_Key(i, v) ==
    SetterCall("PublishBuilder", i, "Key", GoString(v), PublishBuilder_Key(pb[i], v))

Do_PublishBuilder_Payload(i, v) ==
    SetterCall("PublishBuilder", i, "Payload", GoRef(v), PublishBuilder_Payload(pb[i], v))

Do_PublishBuilder_Context(i, v) ==
    SetterCall("PublishBuilder", i, "Context", GoRef(v), PublishBuilder_Context(pb[i], v))

Do_PublishBuilder_Timeout(i, v) ==
    SetterCall("PublishBuilder", i, "Timeout", GoInt(v), PublishBuilder_Timeout(pb[i], v))

PublishBuilderSetterCall(i, Strs, Ints, Maps, Slices, Ctxs) ==
    \/ \E v \in Strs : Do_PublishBuilder_Topic(i, v)
    \/ \E v \in Strs : Do_PublishBuilder_EventName(i, v)
    \/ \E v \in Strs : Do_PublishBuilder_Namespace(i, v)
    \/ \E v \in Strs : Do_PublishBuilder_ParentNamespace(i, v)
    \/ \E v \in Strs : Do_PublishBuilder_UnionNamespace(i, v)
    \/ \E v \in Strs : Do_PublishBuilder_ClientID(i, v)
    \/ \E v \in Strs : Do_PublishBuilder_TraceID(i, v)
    \/ \E v \in Strs : Do_PublishBuilder_SpanContext(i, v)
    \/ \E v \in Strs : Do_PublishBuilder_SessionID(i, v)
    \/ \E v \in Strs : Do_PublishBuilder_UserID(i, v)
    \/ \E v \in Ints : Do_PublishBuilder_Version(i, v)
    \/ \E v \in Ints : Do_PublishBuilder_EventID(i, v)
    \/ \E v \in Ints : Do_PublishBuilder_EventType(i, v)
    \/ \E v \in Ints : Do_PublishBuilder_EventLevel(i, v)
    \/ \E v \in Strs : Do_PublishBuilder_ServiceName(i, v)
    \/ \E v \in Slices : Do_PublishBuilder_ClientIDs(i, v)
    \/ \E v \in Slices : Do_PublishBuilder_TargetUserIDs(i, v)
    \/ \E v \in Strs : Do_PublishBuilder_TargetNamespace(i, v)
    \/ \E v \in BOOLEAN : Do_PublishBuilder_Privacy(i, v)
    \/ \E v \in Maps : Do_PublishBuilder_AdditionalFields(i, v)
    \/ \E v \in Strs : Do_PublishBuilder_ID(i, v)
    \/ \E v \in Strs : Do_PublishBuilder_Key(i, v)
    \/ \E v \in Maps : Do_PublishBuilder_Payload(i, v)
    \/ \E v \in Ctxs : Do_PublishBuilder_Context(i, v)
    \/ \E v \in Ints : Do_PublishBuilder_Timeout(i, v)

Do_SubscribeBuilder_Topic(i, v) ==
    SetterCall("SubscribeBuilder", i, "Topic", GoString(v), SubscribeBuilder_Topic(sb[i], v))

Do_SubscribeBuilder_Offset(i, v) ==
    SetterCall("SubscribeBuilder", i, "Offset", GoInt(v), SubscribeBuilder_Offset(sb[i], v))

Do_SubscribeBuilder_GroupID(i, v) ==
    SetterCall("SubscribeBuilder", i, "GroupID", GoString(v), SubscribeBuilder_GroupID(sb[i], v))

Do_SubscribeBuilder_GroupInstanceID(i, v) ==
    SetterCall("SubscribeBuilder", i, "GroupInstanceID", GoString(v), SubscribeBuilder_GroupInstanceID(sb[i], v))

Do_SubscribeBuilder_EventName(i, v) ==
    SetterCall("SubscribeBuilder", i, "EventName", GoString(v), SubscribeBuilder_EventName(sb[i], v))

Do_SubscribeBuilder_Callback(i, v) ==
    SetterCall("SubscribeBuilder", i, "Callback", GoRef(v), SubscribeBuilder_Callback(sb[i], v))

Do_SubscribeBuilder_CallbackRaw(i, v) ==
    SetterCall("SubscribeBuilder", i, "CallbackRaw", GoRef(v), SubscribeBuilder_CallbackRaw(sb[i], v))

Do_SubscribeBuilder_Context(i, v) ==
    SetterCall("SubscribeBuilder", i, "Context", GoRef(v), SubscribeBuilder_Context(sb[i], v))

Do_SubscribeBuilder_SendErrorDLQ(i, v) ==
    SetterCall("SubscribeBuilder", i, "SendErrorDLQ", GoBool(v), SubscribeBuilder_SendErrorDLQ(sb[i], v))

Do_SubscribeBuilder_AsyncCommitMessage(i, v) ==
    SetterCall("SubscribeBuilder", i, "AsyncCommitMessage", GoBool(v), SubscribeBuilder_AsyncCommitMessage(sb[i], v))

SubscribeBuilderSetterCall(i, Strs, Ints, Funcs, Ctxs) ==
    \/ \E v \in Strs : Do_SubscribeBuilder_Topic(i, v)
    \/ \E v \in Ints : Do_SubscribeBuilder_Offset(i, v)
    \/ \E v \in Strs : Do_SubscribeBuilder_GroupID(i, v)
    \/ \E v \in Strs : Do_SubscribeBuilder_GroupInstanceID(i, v)
    \/ \E v \in Strs : Do_SubscribeBuilder_EventName(i, v)
    \/ \E v \in Funcs : Do_SubscribeBuilder_Callback(i, v)
    \/ \E v \in Funcs : Do_SubscribeBuilder_CallbackRaw(i, v)
    \/ \E v \in Ctxs : Do_SubscribeBuilder_Context(i, v)
    \/ \E v \in BOOLEAN : Do_SubscribeBuilder_SendErrorDLQ(i, v)
    \/ \E v \in BOOLEAN : Do_SubscribeBuilder_AsyncCommitMessage(i, v)

Do_AuditLogBuilder_Category(i, v) ==
    SetterCall("AuditLogBuilder", i, "Category", GoString(v), AuditLogBuilder_Category(alb[i], v))

Do_AuditLogBuilder_ActionName(i, v) ==
    SetterCall("AuditLogBuilder", i, "ActionName", GoString(v), AuditLogBuilder_ActionName(alb[i], v))

Do_AuditLogBuilder_IP(i, v) ==
    SetterCall("AuditLogBuilder", i, "IP", GoString(v), AuditLogBuilder_IP(alb[i], v))

Do_AuditLogBuilder_Actor(i, v) ==
    SetterCall("AuditLogBuilder", i, "Actor", GoString(v), AuditLogBuilder_Actor(alb[i], v))

Do_AuditLogBuilder_IsActorTypeUser(i, v) ==
    SetterCall("AuditLogBuilder", i, "IsActorTypeUser", GoBool(v), AuditLogBuilder_IsActorTypeUser(alb[i], v))

Do_AuditLogBuilder_ClientID(i, v) ==
    SetterCall("AuditLogBuilder", i, "ClientID", GoString(v), AuditLogBuilder_ClientID(alb[i], v))

Do_AuditLogBuilder_ActorNamespace(i, v) ==
    SetterCall("AuditLogBuilder", i, "ActorNamespace", GoString(v), AuditLogBuilder_ActorNamespace(alb[i], v))

Do_AuditLogBuilder_ObjectID(i, v) ==
    SetterCall("AuditLogBuilder", i, "ObjectID", GoString(v), AuditLogBuilder_ObjectID(alb[i], v))

Do_AuditLogBuilder_ObjectType(i, v) ==
    SetterCall("AuditLogBuilder", i, "ObjectType", GoString(v), AuditLogBuilder_ObjectType(alb[i], v))

Do_AuditLogBuilder_ObjectNamespace(i, v) ==
    SetterCall("AuditLogBuilder", i, "ObjectNamespace", GoString(v), AuditLogBuilder_ObjectNamespace(alb[i], v))

Do_AuditLogBuilder_TargetUserID(i, v) ==
    SetterCall("AuditLogBuilder", i, "TargetUserID", GoString(v), AuditLogBuilder_TargetUserID(alb[i], v))

Do_AuditLogBuilder_DeviceID(i, v) ==
    SetterCall("AuditLogBuilder", i, "DeviceID", GoString(v), AuditLogBuilder_DeviceID(alb[i], v))

Do_AuditLogBuilder_Content(i, v) ==
    SetterCall("AuditLogBuilder", i, "Content", GoRef(v), AuditLogBuilder_Content(alb[i], v))

Do_AuditLogBuilder_Diff(i, v) ==
    SetterCall("AuditLogBuilder", i, "Diff", GoRef(v), AuditLogBuilder_Diff(alb[i], v))

Do_AuditLogBuilder_Key(i, v) ==
    SetterCall("AuditLogBuilder", i, "Key", GoString(v), AuditLogBuilder_Key(alb[i], v))

AuditLogBuilderSetterCall(i, Strs, Ids, Maps, Diffs) ==
    \/ \E v \in Strs : Do_AuditLogBuilder_Category(i, v)
    \/ \E v \in Strs : Do_AuditLogBuilder_ActionName(i, v)
    \/ \E v \in Strs : Do_AuditLogBuilder_IP(i, v)
    \/ \E v \in Ids : Do_AuditLogBuilder_Actor(i, v)
    \/ \E v \in BOOLEAN : Do_AuditLogBuilder_IsActorTypeUser(i, v)
    \/ \E v \in Ids : Do_AuditLogBuilder_ClientID(i, v)
    \/ \E v \in Strs : Do_AuditLogBuilder_ActorNamespace(i, v)
    \/ \E v \in Strs : Do_AuditLogBuilder_ObjectID(i, v)
    \/ \E v \in Strs : Do_AuditLogBuilder_ObjectType(i, v)
    \/ \E v \in Strs : Do_AuditLogBuilder_ObjectNamespace(i, v)
    \/ \E v \in Ids : Do_AuditLogBuilder_TargetUserID(i, v)
    \/ \E v \in Strs : Do_AuditLogBuilder_DeviceID(i, v)
    \/ \E v \in Maps : Do_AuditLogBuilder_Content(i, v)
    \/ \E v \in Diffs : Do_AuditLogBuilder_Diff(i, v)
    \/ \E v \in Strs : Do_AuditLogBuilder_Key(i, v)
\* the values generateID() and time.Now().UnixMilli() may give (the clock in
\* small numbers)
IDs == {"id1", "id2"}

Times == {1000, 1001}

FailureModes == {"error", "not valid"}

Do_AuditLogBuilder_Build(i) ==
    \E id \in IDs, now \in Times, failureMode \in FailureModes :
        LET r == AuditLogBuilder_Build(alb[i], heap, diffs, id, now, failureMode) IN
        /\ alb' = [alb EXCEPT ![i] = r.self]
        /\ heap' = r.heap
        /\ ret' = [t |-> "build", msg |-> r.result.msg, err |-> r.result.err]
        /\ op' = [name |-> "Build", kind |-> "AuditLogBuilder", recv |-> i, arg |-> GoRef("nil")]
        /\ calls' = calls + 1
        /\ built' = [built EXCEPT ![i] =
                        [done |-> TRUE, n |-> built[i].n + 1,
                         msg |-> r.result.msg, err |-> r.result.err,
                         content |-> MapAt(heap, alb[i].content),
                         diff |-> DiffAt(heap, diffs, alb[i].diff)]]
        /\ UNCHANGED <<pb, sb, diffs, lastArg, slugs, slugSeparator, eng, cli>>

Do_SubscribeBuilder_Slug(i) ==
    /\ ret' = [t |-> "string", v |-> Slug(sb[i])]
    /\ slugs' = [slugs EXCEPT ![i] =
                    [called |-> TRUE, topic |-> sb[i].topic, eventName |-> sb[i].eventName,
                     groupID |-> sb[i].groupID, value |-> Slug(sb[i])]]
    /\ op' = [name |-> "Slug", kind |-> "SubscribeBuilder", recv |-> i, arg |-> GoRef("nil")]
    /\ calls' = calls + 1
    /\ UNCHANGED <<pb, sb, alb, heap, diffs, lastArg, slugSeparator, eng, cli, built>>

\* the caller, who still holds a map it passed to a setter, writes to it
CallerWritesMap(a, k, v) ==
    /\ heap' = [heap EXCEPT ![a] = (k :> v) @@ @]
    /\ ret' = NoReturn
    /\ op' = [name |-> "CallerWritesMap", kind |-> "caller", recv |-> 0, arg |-> GoRef(a)]
    /\ calls' = calls + 1
    /\ UNCHANGED <<pb, sb, alb, diffs, lastArg, slugs, slugSeparator, eng, cli, built>>

Do_NewClient(prefix, stream, brokers, config, outcome) ==
    LET r == NewClient(prefix, stream, brokers, config, outcome) IN
    /\ ret' = [t |-> "client", client |-> r.client, err |-> r.err]
    /\ op' = [name |-> "NewClient", kind |-> "none", recv |-> 0,
              arg |-> [prefix |-> prefix, stream |-> stream, brokers |-> brokers,
                       config |-> config]]
    /\ calls' = calls + 1
    /\ UNCHANGED <<pb, sb, alb, heap, diffs, lastArg, slugs, slugSeparator, eng, cli, built>>

\* ---- initial states ----

MapAddrs == {"m1", "m2", "m3", "m4", "m5"}

DiffAddrs == {"d1", "d2"}

InitHeap ==
    ("m1" :> ("k" :> GoString("v")))
    @@ ("m2" :> ("k" :> GoInt(7)))
    @@ ("m3" :> ("k" :> GoChan))
    @@ ("m4" :> EmptyMap)
    @@ ("m5" :> ("k" :> GoString(InvalidUTF8)))

InitDiffs ==
    ("d1" :> [Before |-> "m1", After |-> "m4"])
    @@ ("d2" :> [Before |-> "nil", After |-> "m2"])

NoSlug == [called |-> FALSE, topic |-> "", eventName |-> "", groupID |-> "", value |-> ""]

EngineIdle == [pc |-> "Unregistered"]

\* everything but the builders
InitRest ==
    /\ heap = InitHeap
    /\ diffs = InitDiffs
    /\ op = NoCall
    /\ ret = NoReturn
    /\ calls = 0
    /\ slugs = [i \in Builders |-> NoSlug]
    /\ slugSeparator \in SlugSeparators
    /\ eng = EngineIdle
    /\ cli = NoClient
    /\ built = [i \in Builders |-> NoBuild]

\* every builder as its constructor returns it
InitCommon ==
    /\ InitRest
    /\ pb = [i \in Builders |-> NewPublish]
    /\ sb = [i \in Builders |-> NewSubscribe]
    /\ alb = [i \in Builders |-> NewAuditLogBuilder]
    /\ lastArg = EmptyMap

\* ---- SpecSetters: setter calls on one builder of each kind ----

Strs2 == {"", "x"}

Ints2 == {0, 2}

Maps2 == {"nil", "m1"}

AnySetterCall(i) ==
    \/ PublishBuilderSetterCall(i, Strs2, Ints2, Maps2, {"s1"}, {"ctx1"})
    \/ SubscribeBuilderSetterCall(i, Strs2, Ints2, {"cb1"}, {"ctx1"})
    \/ AuditLogBuilderSetterCall(i, Strs2, {"x"}, Maps2, {"d1"})

InitSetters == InitCommon /\ slugSeparator = "."

NextSetters == calls < MaxSetterCalls /\ AnySetterCall(1)

SpecSetters == InitSetters /\ [][NextSetters]_vars

\* ---- SpecSlug: Topic, EventName, GroupID and Slug on two builders ----

TopicStrs == {"", slugSeparator, "a" \o slugSeparator, "orders"}

EventNameStrs == {"", slugSeparator, slugSeparator \o "b", "created"}

GroupIDStrs == {"", "c", "g1"}

NextSlug ==
    /\ calls < MaxSlugCalls
    /\ \E i \in Builders :
        \/ \E v \in TopicStrs : Do_SubscribeBuilder_Topic(i, v)
        \/ \E v \in EventNameStrs : Do_SubscribeBuilder_EventName(i, v)
        \/ \E v \in GroupIDStrs : Do_SubscribeBuilder_GroupID(i, v)
        \/ Do_SubscribeBuilder_Slug(i)

SpecSlug == InitCommon /\ [][NextSlug]_vars

\* ---- SpecClient: NewClient ----

Streams == {eventStreamNull, eventStreamStdout, eventStreamKafka, "", "KAFKA", "redis"}

Prefixes == {"", "prefix"}

BrokerLists == {<<>>, <<"localhost:9092">>, <<"unreachable:1">>}

\* the variadic config: absent, nil, or a BrokerConfig
Configs == {"absent", "nil", "config"}

NextClient ==
    /\ calls < MaxClientCalls
    /\ \E prefix \in Prefixes, stream \in Streams, brokers \in BrokerLists,
          config \in Configs, outcome \in {"connected", "failed"} :
            Do_NewClient(prefix, stream, brokers, config, outcome)

SpecClient == InitSetters /\ [][NextClient]_vars

\* ---- SpecAudit: an AuditLogBuilder, its setters and Build ----

AuditStrs == {"", "x", InvalidUTF8}

AuditIds == {"", "e2c1b3a4f5d64c7b8a9f0e1d2c3b4a5f", "not-a-uuid"}

AuditMaps == {"nil"} \cup MapAddrs

AuditDiffs == {"nil"} \cup DiffAddrs

\* the setter calls that give every required field but actorType a value
RequiredButActorType ==
    << <<"Category", GoString("x")>>, <<"ActionName", GoString("x")>>,
       <<"Actor", GoString("e2c1b3a4f5d64c7b8a9f0e1d2c3b4a5f")>>,
       <<"ClientID", GoString("0f8fad5bd9cb469fa16570867728950e")>>,
       <<"ActorNamespace", GoString("x")>>, <<"ObjectNamespace", GoString("x")>> >>

AllRequired == Append(RequiredButActorType, <<"IsActorTypeUser", GoBool(TRUE)>>)

AuditLogBuilderApply(b, call) ==
    CASE call[1] = "Category" -> AuditLogBuilder_Category(b, call[2].v)
      [] call[1] = "ActionName" -> AuditLogBuilder_ActionName(b, call[2].v)
      [] call[1] = "Actor" -> AuditLogBuilder_Actor(b, call[2].v)
      [] call[1] = "IsActorTypeUser" -> AuditLogBuilder_IsActorTypeUser(b, call[2].v)
      [] call[1] = "ClientID" -> AuditLogBuilder_ClientID(b, call[2].v)
      [] call[1] = "ActorNamespace" -> AuditLogBuilder_ActorNamespace(b, call[2].v)
      [] call[1] = "ObjectNamespace" -> AuditLogBuilder_ObjectNamespace(b, call[2].v)
      [] call[1] = "Content" -> AuditLogBuilder_Content(b, call[2].v)
      [] call[1] = "Diff" -> AuditLogBuilder_Diff(b, call[2].v)
      [] call[1] = "Key" -> AuditLogBuilder_Key(b, call[2].v)

\* the builder after a chain of setter calls, each setter called once
RECURSIVE AuditLogBuilderChain(_, _)
AuditLogBuilderChain(b, chain) ==
    IF chain = <<>> THEN b
    ELSE AuditLogBuilderChain(AuditLogBuilderApply(b, Head(chain)), Tail(chain))

\* lastArg after builder i was given that chain of calls
ChainArgs(kind, i, chain) ==
    [key \in {<<kind, i, chain[n][1]>> : n \in 1..Len(chain)} |->
        chain[CHOOSE n \in 1..Len(chain) : chain[n][1] = key[3]][2]]

AuditChains == {<<>>, RequiredButActorType, AllRequired}

InitAudit ==
    /\ InitRest /\ slugSeparator = "."
    /\ pb = [i \in Builders |-> NewPublish]
    /\ sb = [i \in Builders |-> NewSubscribe]
    /\ \E chain \in AuditChains :
        /\ alb = [i \in Builders |->
                    IF i = 1 THEN AuditLogBuilderChain(NewAuditLogBuilder, chain)
                    ELSE NewAuditLogBuilder]
        /\ lastArg = ChainArgs("AuditLogBuilder", 1, chain)

NextAudit ==
    /\ calls < MaxAuditCalls
    /\ \/ AuditLogBuilderSetterCall(1, AuditStrs, AuditIds, AuditMaps, AuditDiffs)
       \/ Do_AuditLogBuilder_Build(1)

SpecAudit == InitAudit /\ [][NextAudit]_vars

\* ---- SpecShared: two builders of each kind that were given the same maps ----

SharedChain == AllRequired \o << <<"Content", GoRef("m1")>>, <<"Diff", GoRef("d1")>> >>

InitShared ==
    /\ InitRest /\ slugSeparator = "."
    /\ sb = [i \in Builders |-> NewSubscribe]
    /\ pb = [i \in Builders |->
                PublishBuilder_AdditionalFields(PublishBuilder_Payload(NewPublish, "m1"), "m4")]
    /\ alb = [i \in Builders |-> AuditLogBuilderChain(NewAuditLogBuilder, SharedChain)]
    /\ lastArg =
        ChainArgs("AuditLogBuilder", 1, SharedChain)
        @@ ChainArgs("AuditLogBuilder", 2, SharedChain)
        @@ [key \in {"PublishBuilder"} \X Builders \X {"Payload", "AdditionalFields"} |->
                IF key[3] = "Payload" THEN GoRef("m1") ELSE GoRef("m4")]

\* a setter call that replaces what the builder held
SharedSetterCall(i) ==
    \/ PublishBuilderSetterCall(i, {"y"}, {3}, {"m2"}, {"s1"}, {"ctx1"})
    \/ SubscribeBuilderSetterCall(i, {"y"}, {3}, {"cb1"}, {"ctx1"})
    \/ AuditLogBuilderSetterCall(i, {"y"}, {"y"}, {"m2"}, {"d2"})

NextShared ==
    /\ calls < MaxSharedCalls
    /\ \/ \E i \in Builders : SharedSetterCall(i)
       \/ \E i \in Builders : Do_AuditLogBuilder_Build(i)
       \/ \E a \in {"m1", "m4"} : CallerWritesMap(a, "k2", GoString("w"))

SpecShared == InitShared /\ [][NextShared]_vars


\* ---- SpecBackend: Publish, PublishSync and Register on the clients that
\* have no broker ----

\* a call of a Client method with builder i (NilBuilder: a nil pointer); r is
\* what the method returns and what it leaves of c
ClientCall(name, kind, i, r) ==
    /\ cli' = r.cli
    /\ ret' = [t |-> "error", err |-> r.err]
    /\ op' = [name |-> name, kind |-> "Client", recv |-> 0,
              arg |-> [t |-> kind, v |-> i]]
    /\ lastArg' = (<<"Client", 0, name>> :> [t |-> kind, v |-> i]) @@ lastArg
    /\ calls' = calls + 1
    /\ UNCHANGED <<pb, sb, alb, heap, diffs, slugs, slugSeparator, eng, built>>

\* a StdoutClient is called with builders only, a BlackholeClient also with nil
BuilderArgs ==
    IF cli.client.kind = "BlackholeClient" THEN Builders \cup {NilBuilder} ELSE Builders

\* the struct behind the pointer; a nil pointer is never read by the method
\* that is given one
PublishBuilderAt(i) == IF i = NilBuilder THEN NewPublish ELSE pb[i]

SubscribeBuilderAt(i) == IF i = NilBuilder THEN NewSubscribe ELSE sb[i]

Do_Client_Publish(i) ==
    ClientCall("Publish", "PublishBuilder", i, Client_Publish(cli, PublishBuilderAt(i)))

Do_Client_PublishSync(i) ==
    ClientCall("PublishSync", "PublishBuilder", i, Client_PublishSync(cli, PublishBuilderAt(i)))

Do_Client_Register(i) ==
    ClientCall("Register", "SubscribeBuilder", i, Client_Register(cli, SubscribeBuilderAt(i)))

\* the client of NewClient(prefix, "none" or "stdout", ...); builder 1 of each
\* kind is fresh, builder 2 is filled in
InitBackend ==
    /\ heap = InitHeap /\ diffs = InitDiffs
    /\ op = NoCall /\ ret = NoReturn /\ calls = 0
    /\ slugs = [i \in Builders |-> NoSlug]
    /\ slugSeparator = "."
    /\ eng = EngineIdle
    /\ built = [i \in Builders |-> NoBuild]
    /\ lastArg =
        ChainArgs("PublishBuilder", 2,
                  << <<"Topic", GoString("orders")>>, <<"EventName", GoString("created")>>,
                     <<"Payload", GoRef("m1")>> >>)
        @@ ChainArgs("SubscribeBuilder", 2,
                     << <<"Topic", GoString("orders")>>, <<"GroupID", GoString("g1")>>,
                        <<"Callback", GoRef("cb1")>> >>)
    /\ alb = [i \in Builders |-> NewAuditLogBuilder]
    /\ pb = [i \in Builders |->
                IF i = 1 THEN NewPublish
                ELSE PublishBuilder_Payload(
                        PublishBuilder_EventName(
                            PublishBuilder_Topic(NewPublish, "orders"), "created"), "m1")]
    /\ sb = [i \in Builders |->
                IF i = 1 THEN NewSubscribe
                ELSE SubscribeBuilder_Callback(
                        SubscribeBuilder_GroupID(
                            SubscribeBuilder_Topic(NewSubscribe, "orders"), "g1"), "cb1")]
    /\ \E prefix \in Prefixes, stream \in {eventStreamNull, eventStreamStdout},
          brokers \in BrokerLists, config \in Configs :
            cli = [client |-> NewClient(prefix, stream, brokers, config, "connected").client,
                   stdout |-> <<>>]

NextBackend ==
    /\ calls < MaxBackendCalls
    /\ \E i \in BuilderArgs :
        \/ Do_Client_Publish(i)
        \/ Do_Client_PublishSync(i)
        \/ Do_Client_Register(i)

SpecBackend == InitBackend /\ [][NextBackend]_vars

\* ---- SpecRebuild: Build is called again on an AuditLogBuilder, and the
\* caller keeps writing to the maps it gave to the builder ----

RebuildChains ==
    { RequiredButActorType,
      AllRequired \o << <<"Key", GoString("x")>> >>,
      AllRequired \o << <<"Key", GoString("x")>>, <<"Content", GoRef("m1")>>,
                        <<"Diff", GoRef("d1")>> >> }

InitRebuild ==
    /\ InitRest /\ slugSeparator = "."
    /\ pb = [i \in Builders |-> NewPublish]
    /\ sb = [i \in Builders |-> NewSubscribe]
    /\ \E chain \in RebuildChains :
        /\ alb = [i \in Builders |->
                    IF i = 1 THEN AuditLogBuilderChain(NewAuditLogBuilder, chain)
                    ELSE NewAuditLogBuilder]
        /\ lastArg = ChainArgs("AuditLogBuilder", 1, chain)

NextRebuild ==
    /\ calls < MaxRebuildCalls
    /\ \/ Do_AuditLogBuilder_Build(1)
       \/ \E v \in {"", "x"} : Do_AuditLogBuilder_Category(1, v)
       \/ \E v \in {"nil", "m1"} : Do_AuditLogBuilder_Content(1, v)
       \/ \E a \in {"m1", "m4"} :
            \/ CallerWritesMap(a, "k2", GoString("w"))
            \/ CallerWritesMap(a, "k2", GoChan)

SpecRebuild == InitRebuild /\ [][NextRebuild]_vars
\* ---- the subscriber engine of the broker-backed client ----
\* One subscription on one partition.  eng is
\*   pc          Unregistered, Polling, Dispatching, RoutingToDLQ, Committing, Stopped
\*   given       whether NewClient was given a BrokerConfig
\*   config      the BrokerConfig in force
\*   topic, sendErrorDLQ, eventName   taken from the SubscribeBuilder at Register
\*   pos         offset of the next message the consumer polls
\*   cur         offset of the message being processed (0: none)
\*   stored      highest offset handed to the auto-committer
\*   committed   highest offset committed at the broker
\*   failed      whether the callback returned an error for cur
\*   delivered, errored, dlqTries
\*               per offset: callback invocations, callback errors, DLQ publishes tried
\*   dlqLog      the messages on the dead-letter topic, in order
\*   crashes     process crashes so far

\* messages on the topic, offsets 1..NMsgs
NMsgs == 2

\* process crashes in one behaviour
MaxCrashes == 1

Offsets == 1..NMsgs

\* the message at an offset: its raw value and the event name it decodes to
TopicLog(o) == [offset |-> o, value |-> <<"raw", o>>, name |-> IF o = 1 THEN "created" ELSE "deleted"]

\* mutant: CommitBeforeProcessing on by default
DefaultBrokerConfig_CommitFirst == [DisableAutoCommit |-> FALSE, CommitBeforeProcessing |-> TRUE]

\* BrokerConfig without options set
DefaultBrokerConfig == [DisableAutoCommit |-> FALSE, CommitBeforeProcessing |-> FALSE]

BrokerConfigs == [DisableAutoCommit : BOOLEAN, CommitBeforeProcessing : BOOLEAN]

\* dead-letter topic of a topic
DLQTopic(topic) == topic \o "-" \o dlq

Max(a, b) == IF a >= b THEN a ELSE b

\* commit of offset o as the engine issues it: synchronously when auto commit
\* is disabled, else stored for the auto-committer
IssueCommit(e, o) ==
    IF e.config.DisableAutoCommit
    THEN [e EXCEPT !.committed = Max(@, o)]
    ELSE [e EXCEPT !.stored = Max(@, o)]

EngStep(e, name, arg) ==
    /\ eng' = e
    /\ op' = [name |-> name, kind |-> "engine", recv |-> 0, arg |-> arg]
    /\ ret' = NoReturn
    /\ UNCHANGED <<pb, sb, alb, heap, diffs, lastArg, calls, slugs, slugSeparator, cli, built>>

\* Register(subscribeBuilder) on a client constructed with that config
\* (given is FALSE when NewClient was given none)
Register(i, given, config) ==
    /\ eng.pc = "Unregistered"
    /\ EngStep([ pc |-> "Polling",
                 given |-> given,
                 config |-> IF given THEN config ELSE DefaultBrokerConfig,
                 topic |-> sb[i].topic,
                 sendErrorDLQ |-> sb[i].sendErrorDLQ,
                 eventName |-> sb[i].eventName,
                 pos |-> 1, cur |-> 0, stored |-> 0, committed |-> 0,
                 failed |-> FALSE,
                 delivered |-> [o \in Offsets |-> 0],
                 errored |-> [o \in Offsets |-> 0],
                 dlqTries |-> [o \in Offsets |-> 0],
                 dlqLog |-> <<>>, crashes |-> 0 ],
               "Register", [builder |-> i, given |-> given])

\* Polling: the next message arrives; with CommitBeforeProcessing its commit
\* is issued now.  A message the event-name filter rejects skips the callback.
Poll ==
    /\ eng.pc = "Polling"
    /\ eng.pos \in Offsets
    /\ LET o == eng.pos
           polled == [eng EXCEPT !.cur = o, !.pos = o + 1, !.failed = FALSE]
           early == IF eng.config.CommitBeforeProcessing
                    THEN IssueCommit(polled, o) ELSE polled
           filtered == eng.eventName # "" /\ TopicLog(o).name # eng.eventName
       IN  EngStep([early EXCEPT !.pc = IF filtered THEN "Committing" ELSE "Dispatching"],
                   "Poll", o)

\* Dispatching: the callback runs and returns, with or without an error
CallbackReturns(failed) ==
    /\ eng.pc = "Dispatching"
    /\ EngStep([eng EXCEPT
                    !.failed = failed,
                    !.delivered[eng.cur] = @ + 1,
                    !.errored[eng.cur] = IF failed THEN @ + 1 ELSE @,
                    !.pc = IF failed /\ eng.sendErrorDLQ
                           THEN "RoutingToDLQ" ELSE "Committing"],
               "CallbackReturns", failed)

\* RoutingToDLQ: the raw message is published to the dead-letter topic; a
\* failed publish is logged and the message is not on the dead-letter topic
RouteToDLQ(published) ==
    /\ eng.pc = "RoutingToDLQ"
    /\ EngStep([eng EXCEPT
                    !.dlqTries[eng.cur] = @ + 1,
                    !.dlqLog = IF published
                               THEN Append(@, [topic |-> DLQTopic(eng.topic),
                                               value |-> TopicLog(eng.cur).value,
                                               offset |-> eng.cur])
                               ELSE @,
                    !.pc = "Committing"],
               "RouteToDLQ", published)

\* Committing: unless it was issued at poll time, the commit is issued now
Commit ==
    /\ eng.pc = "Committing"
    /\ LET late == IF eng.config.CommitBeforeProcessing
                   THEN eng ELSE IssueCommit(eng, eng.cur)
       IN  EngStep([late EXCEPT !.pc = "Polling", !.cur = 0], "Commit", eng.cur)

\* the auto-committer flushes the stored offset every AutoCommitInterval
AutoCommit ==
    /\ eng.pc \in {"Polling", "Dispatching", "RoutingToDLQ", "Committing"}
    /\ ~eng.config.DisableAutoCommit
    /\ eng.stored > eng.committed
    /\ EngStep([eng EXCEPT !.committed = eng.stored], "AutoCommit", eng.stored)

\* the subscription's context is cancelled: buffered commits are flushed
Cancel ==
    /\ eng.pc \in {"Polling", "Dispatching", "RoutingToDLQ", "Committing"}
    /\ EngStep([eng EXCEPT !.pc = "Stopped", !.committed = Max(@, eng.stored)],
               "Cancel", eng.cur)

\* the process dies and restarts: what was not committed at the broker is
\* polled again
Crash ==
    /\ eng.pc \in {"Polling", "Dispatching", "RoutingToDLQ", "Committing"}
    /\ eng.crashes < MaxCrashes
    /\ EngStep([eng EXCEPT !.pc = "Polling", !.cur = 0, !.failed = FALSE,
                           !.pos = eng.committed + 1, !.stored = eng.committed,
                           !.crashes = @ + 1],
               "Crash", [pc |-> eng.pc, cur |-> eng.cur])

\* ---- SpecSub: a subscription is built, registered and runs until it is
\* cancelled; the process does not crash ----

SubTopics == {"orders"}

SubEventNames == {"", "created"}

Runs ==
    \/ Poll
    \/ \E failed \in BOOLEAN : CallbackReturns(failed)
    \/ \E published \in BOOLEAN : RouteToDLQ(published)
    \/ Commit
    \/ AutoCommit
    \/ Cancel

NextSub ==
    \/ /\ eng.pc = "Unregistered"
       /\ calls < MaxSubCalls
       /\ \/ \E v \in BOOLEAN : Do_SubscribeBuilder_SendErrorDLQ(1, v)
          \/ \E v \in SubTopics : Do_SubscribeBuilder_Topic(1, v)
          \/ \E v \in SubEventNames : Do_SubscribeBuilder_EventName(1, v)
    \/ \E config \in BrokerConfigs : Register(1, TRUE, config)
    \/ Register(1, FALSE, DefaultBrokerConfig)
    \/ Runs

SpecSub == InitSetters /\ [][NextSub]_vars

\* ---- SpecCrash: a subscription runs in a process that crashes and
\* restarts ----

\* the subscription NewSubscribe().Topic("orders").SendErrorDLQ(dlqOn)
InitCrash ==
    /\ InitRest /\ slugSeparator = "."
    /\ pb = [i \in Builders |-> NewPublish]
    /\ alb = [i \in Builders |-> NewAuditLogBuilder]
    /\ \E dlqOn \in BOOLEAN :
        /\ sb = [i \in Builders |->
                    IF i = 1
                    THEN SubscribeBuilder_SendErrorDLQ(
                            SubscribeBuilder_Topic(NewSubscribe, "orders"), dlqOn)
                    ELSE NewSubscribe]
        /\ lastArg = ChainArgs("SubscribeBuilder", 1,
                                << <<"Topic", GoString("orders")>>,
                                   <<"SendErrorDLQ", GoBool(dlqOn)>> >>)

NextCrash ==
    \/ \E config \in BrokerConfigs : Register(1, TRUE, config)
    \/ Register(1, FALSE, DefaultBrokerConfig)
    \/ Runs
    \/ Crash

SpecCrash == InitCrash /\ [][NextCrash]_vars
\* ======================================================================
\* Properties
\* ======================================================================

\* ---- helpers of the properties ----

BuilderKinds == {"PublishBuilder", "SubscribeBuilder", "AuditLogBuilder"}

BuilderOf(kind, i) ==
    CASE kind = "PublishBuilder" -> pb[i]
      [] kind = "SubscribeBuilder" -> sb[i]
      [] kind = "AuditLogBuilder" -> alb[i]

FreshBuilder(kind) ==
    CASE kind = "PublishBuilder" -> NewPublish
      [] kind = "SubscribeBuilder" -> NewSubscribe
      [] kind = "AuditLogBuilder" -> NewAuditLogBuilder

\* the fields of a PublishBuilder by the name of their setter, as Go values
PublishBuilderFields(b) ==
    [
      Topic |-> GoString(b.topic),
      EventName |-> GoString(b.eventName),
      Namespace |-> GoString(b.namespace),
      ParentNamespace |-> GoString(b.parentNamespace),
      UnionNamespace |-> GoString(b.unionNamespace),
      ClientID |-> GoString(b.clientID),
      TraceID |-> GoString(b.traceID),
      SpanContext |-> GoString(b.spanContext),
      SessionID |-> GoString(b.sessionID),
      UserID |-> GoString(b.userID),
      Version |-> GoInt(b.version),
      EventID |-> GoInt(b.eventID),
      EventType |-> GoInt(b.eventType),
      EventLevel |-> GoInt(b.eventLevel),
      ServiceName |-> GoString(b.serviceName),
      ClientIDs |-> GoRef(b.clientIDs),
      TargetUserIDs |-> GoRef(b.targetUserIDs),
      TargetNamespace |-> GoString(b.targetNamespace),
      Privacy |-> GoBool(b.privacy),
      AdditionalFields |-> GoRef(b.additionalFields),
      ID |-> GoString(b.id),
      Key |-> GoString(b.key),
      Payload |-> GoRef(b.payload),
      Context |-> GoRef(b.ctx),
      Timeout |-> GoInt(b.timeout) ]

PublishBuilderSetters ==
    {"Topic", "EventName", "Namespace", "ParentNamespace", "UnionNamespace", "ClientID", "TraceID", "SpanContext", "SessionID", "UserID", "Version", "EventID", "EventType", "EventLevel", "ServiceName", "ClientIDs", "TargetUserIDs", "TargetNamespace", "Privacy", "AdditionalFields", "ID", "Key", "Payload", "Context", "Timeout"}

\* the fields of a SubscribeBuilder by the name of their setter, as Go values
SubscribeBuilderFields(b) ==
    [
      Topic |-> GoString(b.topic),
      Offset |-> GoInt(b.offset),
      GroupID |-> GoString(b.groupID),
      GroupInstanceID |-> GoString(b.groupInstanceID),
      EventName |-> GoString(b.eventName),
      Callback |-> GoRef(b.callback),
      CallbackRaw |-> GoRef(b.callbackRaw),
      Context |-> GoRef(b.ctx),
      SendErrorDLQ |-> GoBool(b.sendErrorDLQ),
      AsyncCommitMessage |-> GoBool(b.asyncCommitMessage) ]

SubscribeBuilderSetters ==
    {"Topic", "Offset", "GroupID", "GroupInstanceID", "EventName", "Callback", "CallbackRaw", "Context", "SendErrorDLQ", "AsyncCommitMessage"}

\* the fields of a AuditLogBuilder by the name of their setter, as Go values
AuditLogBuilderFields(b) ==
    [
      Category |-> GoString(b.category),
      ActionName |-> GoString(b.actionName),
      IP |-> GoString(b.ip),
      Actor |-> GoString(b.actor),
      IsActorTypeUser |-> GoString(b.actorType),
      ClientID |-> GoString(b.clientID),
      ActorNamespace |-> GoString(b.actorNamespace),
      ObjectID |-> GoString(b.objectID),
      ObjectType |-> GoString(b.objectType),
      ObjectNamespace |-> GoString(b.objectNamespace),
      TargetUserID |-> GoString(b.targetUserID),
      DeviceID |-> GoString(b.deviceID),
      Content |-> GoRef(b.content),
      Diff |-> GoRef(b.diff),
      Key |-> GoString(b.key) ]

AuditLogBuilderSetters ==
    {"Category", "ActionName", "IP", "Actor", "IsActorTypeUser", "ClientID", "ActorNamespace", "ObjectID", "ObjectType", "ObjectNamespace", "TargetUserID", "DeviceID", "Content", "Diff", "Key"}
SettersOf(kind) ==
    CASE kind = "PublishBuilder" -> PublishBuilderSetters
      [] kind = "SubscribeBuilder" -> SubscribeBuilderSetters
      [] kind = "AuditLogBuilder" -> AuditLogBuilderSetters

\* the fields of a builder by the name of their setter
FieldsOf(kind, b) ==
    CASE kind = "PublishBuilder" -> PublishBuilderFields(b)
      [] kind = "SubscribeBuilder" -> SubscribeBuilderFields(b)
      [] kind = "AuditLogBuilder" -> AuditLogBuilderFields(b)

IsSetterCall == op.kind \in BuilderKinds /\ op.name \in SettersOf(op.kind)

IsBuild == op.name = "Build"

\* the required fields of the struct tags, on the builder
RequiredFields(b) ==
    {b.category, b.actionName, b.actor, b.actorType, b.clientID,
     b.actorNamespace, b.objectNamespace}

\* ---- C1 ----
\* C1: when at least one required field of the AuditLogBuilder (category,
\* actionName, actor, actorType, clientID, actorNamespace, objectNamespace) is
\* empty, Build returns a validation error - the validator's own error, or
\* errInvalidPubStruct when the validator reports not valid without an error -
\* and the message it returns is the empty kafka.Message: no key, no value.
C1_MissingRequiredFieldFailsBuild ==
    (IsBuild /\ "" \in RequiredFields(alb[op.recv]))
        => /\ ret.err \in {"validation error", "errInvalidPubStruct"}
           /\ ret.msg = EmptyMessage

\* a Build of a builder whose only missing required field is the category,
\* refused by a validator that reports not valid without an error
C1_Witness ==
    /\ IsBuild
    /\ alb[op.recv].category = ""
    /\ RequiredFields(alb[op.recv]) \ {""} # {}
    /\ alb[op.recv].actionName # "" /\ alb[op.recv].actor # ""
    /\ alb[op.recv].actorType # "" /\ alb[op.recv].clientID # ""
    /\ alb[op.recv].actorNamespace # "" /\ alb[op.recv].objectNamespace # ""
    /\ ret.err = "errInvalidPubStruct"
    /\ ret.msg = EmptyMessage

\* ---- C2 ----
\* C2: NewClient returns an error and no client for every backend name other
\* than "none", "stdout" and "kafka"; for "none" and "stdout" it returns a
\* client and no error, whatever the brokers and the configuration are.
C2_NewClientSelectsBackend ==
    op.name = "NewClient" =>
        /\ op.arg.stream \notin {"none", "stdout", "kafka"}
            => (ret.err # "nil" /\ ret.client = NilClient)
        /\ op.arg.stream \in {"none", "stdout"}
            => (ret.err = "nil" /\ ret.client # NilClient)
        /\ op.arg.stream = "none" => ret.client.kind = "BlackholeClient"
        /\ op.arg.stream = "stdout" => ret.client.kind = "StdoutClient"

\* NewClient refused a name that differs from "kafka" only in case, although
\* brokers and a configuration were given
C2_Witness ==
    /\ op.name = "NewClient"
    /\ op.arg.stream = "KAFKA"
    /\ op.arg.brokers # <<>>
    /\ op.arg.config = "config"
    /\ ret.err = "unsupported stream"
    /\ ret.client = NilClient

\* ---- C3 ----

\* how often the message of offset o is on the dead-letter topic, unchanged
RECURSIVE CountOnDLQ(_, _)
CountOnDLQ(log, o) ==
    IF log = <<>> THEN 0
    ELSE (IF Head(log) = [topic |-> DLQTopic(eng.topic), value |-> TopicLog(o).value,
                          offset |-> o]
          THEN 1 ELSE 0) + CountOnDLQ(Tail(log), o)

\* the commit position the engine has issued: committed, or handed to the
\* auto-committer
Issued == Max(eng.committed, eng.stored)

Running == eng.pc # "Unregistered"

\* the subscription was built with SendErrorDLQ(true) as the latest call
DLQRequested ==
    /\ <<"SubscribeBuilder", 1, "SendErrorDLQ">> \in DOMAIN lastArg
    /\ lastArg[<<"SubscribeBuilder", 1, "SendErrorDLQ">>] = GoBool(TRUE)

PassesValidation(b) ==
    /\ "" \notin RequiredFields(b)
    /\ b.actor \in UUID4WithoutHyphens
    /\ b.clientID \in UUID4WithoutHyphens
    /\ b.targetUserID # "" => b.targetUserID \in UUID4WithoutHyphens

\* the decoded AuditLog a has the builder's field values; a nil and an empty
\* map, and a nil diff and an empty one, count as equal
RoundTrips(b, a) ==
    /\ a.Category = b.category /\ a.ActionName = b.actionName /\ a.IP = b.ip
    /\ a.Actor = b.actor /\ a.ActorType = b.actorType /\ a.ClientID = b.clientID
    /\ a.ActorNamespace = b.actorNamespace /\ a.ObjectID = b.objectID
    /\ a.ObjectType = b.objectType /\ a.ObjectNamespace = b.objectNamespace
    /\ a.TargetUserID = b.targetUserID /\ a.DeviceID = b.deviceID
    /\ a.Payload.Content.m = MapAt(heap, b.content).m
    /\ a.Payload.Diff.Before.m = DiffAt(heap, diffs, b.diff).Before.m
    /\ a.Payload.Diff.After.m = DiffAt(heap, diffs, b.diff).After.m

BuiltAndRoundTrips(b) ==
    /\ ret.err = "nil"
    /\ ret.msg.Key = [nil |-> FALSE, bytes |-> b.key]
    /\ ~ret.msg.Value.nil
    /\ RoundTrips(b, Unmarshal(ret.msg.Value.json))

\* C5 as stated: for every builder whose fields pass validation, Build
\* returns a message whose key is the bytes of the builder's key and whose
\* decoded value has every field equal to the builder's.
C5_ValidBuilderRoundTrips ==
    (IsBuild /\ PassesValidation(alb[op.recv])) => BuiltAndRoundTrips(alb[op.recv])

\* values that encoding/json gives back as they were: valid UTF-8 strings and
\* float64 numbers
JSONFaithfulString(v) == v # InvalidUTF8

JSONFaithfulMap(mv) ==
    \A k \in DOMAIN mv.m :
        \/ mv.m[k].t = "string" /\ JSONFaithfulString(mv.m[k].v)
        \/ mv.m[k].t = "float64"

JSONFaithful(b) ==
    /\ \A v \in {b.category, b.actionName, b.ip, b.actor, b.actorType, b.clientID,
                 b.actorNamespace, b.objectID, b.objectType, b.objectNamespace,
                 b.targetUserID, b.deviceID} : JSONFaithfulString(v)
    /\ JSONFaithfulMap(MapAt(heap, b.content))
    /\ JSONFaithfulMap(DiffAt(heap, diffs, b.diff).Before)
    /\ JSONFaithfulMap(DiffAt(heap, diffs, b.diff).After)

\* C5 as amended: the same, for the builders whose fields pass validation and
\* hold only values that encoding/json preserves: strings that are valid
\* UTF-8, and content and diff maps whose values are such strings or float64
\* numbers.
C5_FaithfulBuilderRoundTrips ==
    (IsBuild /\ PassesValidation(alb[op.recv]) /\ JSONFaithful(alb[op.recv]))
        => BuiltAndRoundTrips(alb[op.recv])

\* a valid builder with a content map and no ip was built: the ip member is
\* omitted from the encoding and decodes to ""
C5_Witness ==
    /\ IsBuild /\ ret.err = "nil"
    /\ PassesValidation(alb[op.recv]) /\ JSONFaithful(alb[op.recv])
    /\ alb[op.recv].content = "m1"
    /\ alb[op.recv].ip = ""
    /\ "ip" \notin DOMAIN ret.msg.Value.json
    /\ Unmarshal(ret.msg.Value.json).IP = ""
    /\ Unmarshal(ret.msg.Value.json).Payload.Content.m = ("k" :> GoString("v"))

\* ---- C6 ----

SetterCalled(kind, i, name) == <<kind, i, name>> \in DOMAIN lastArg

\* equality of two Go values: of their types and then of what they hold
SameValue(a, b) == a.t = b.t /\ a = b

ReturnsReceiver ==
    IsSetterCall => ret = [t |-> "builder", kind |-> op.kind, ptr |-> op.recv]

\* C6 as stated: every field of a builder equals the argument of the latest
\* call of its setter, or the constructor's default when the setter was never
\* called, and a setter returns the builder it was called on.
C6_FieldEqualsLatestArgument ==
    /\ \A kind \in BuilderKinds, i \in Builders :
        LET fields == FieldsOf(kind, BuilderOf(kind, i))
            fresh == FieldsOf(kind, FreshBuilder(kind))
        IN  \A name \in SettersOf(kind) :
                SameValue(fields[name],
                          IF SetterCalled(kind, i, name)
                          THEN lastArg[<<kind, i, name>>]
                          ELSE fresh[name])
    /\ ReturnsReceiver

\* what a setter stores for an argument
AsStored(name, arg) ==
    IF name = "IsActorTypeUser"
    THEN GoString(IF arg.v THEN "USER" ELSE "CLIENT")
    ELSE arg

\* C6 as amended: every field of a builder equals the argument of the latest
\* call of its setter - for actorType, whose setter IsActorTypeUser takes a
\* bool, "USER" when that argument was true and "CLIENT" when it was false -
\* or the constructor's default when the setter was never called; the fields
\* without a setter keep the constructor's value; a setter returns the
\* builder it was called on.
C6_FieldFollowsLatestCall ==
    /\ \A kind \in BuilderKinds, i \in Builders :
        LET fields == FieldsOf(kind, BuilderOf(kind, i))
            fresh == FieldsOf(kind, FreshBuilder(kind))
        IN  \A name \in SettersOf(kind) :
                SameValue(fields[name],
                          IF SetterCalled(kind, i, name)
                          THEN AsStored(name, lastArg[<<kind, i, name>>])
                          ELSE fresh[name])
    /\ \A i \in Builders :
        /\ alb[i].ctx = NewAuditLogBuilder.ctx
        /\ alb[i].version = NewAuditLogBuilder.version
    /\ ReturnsReceiver

\* IsActorTypeUser(false) and then SpanContext("x") were called
C6_Witness ==
    /\ calls = 2
    /\ op.name = "SpanContext" /\ op.arg = GoString("x")
    /\ SetterCalled("AuditLogBuilder", 1, "IsActorTypeUser")
    /\ alb[1].actorType = "CLIENT"
    /\ pb[1].spanContext = "x" /\ pb[1].traceID = ""

\* ---- C7 ----
\* C7: the actorType of a builder is "USER" or "CLIENT", or "" exactly as
\* long as IsActorTypeUser was never called on it; every message Build
\* returns without error carries the actorType "USER" or "CLIENT"; Build
\* fails on a builder on which IsActorTypeUser was never called.
C7_ActorTypeClosed ==
    /\ \A i \in Builders :
        /\ alb[i].actorType \in {"USER", "CLIENT", ""}
        /\ alb[i].actorType = "" <=> ~SetterCalled("AuditLogBuilder", i, "IsActorTypeUser")
    /\ (IsBuild /\ ret.err = "nil")
        => Unmarshal(ret.msg.Value.json).ActorType \in {"USER", "CLIENT"}
    /\ (IsBuild /\ ~SetterCalled("AuditLogBuilder", op.recv, "IsActorTypeUser"))
        => ret.err # "nil"

\* a builder given IsActorTypeUser(false) was built into a CLIENT message
C7_Witness ==
    /\ IsBuild /\ ret.err = "nil"
    /\ lastArg[<<"AuditLogBuilder", op.recv, "IsActorTypeUser">>] = GoBool(FALSE)
    /\ Unmarshal(ret.msg.Value.json).ActorType = "CLIENT"

\* ---- C8 ----
\* C8: Slug() is the topic, the separator, the event name, the separator and
\* the group ID, in that order and nothing else, for all values of the three
\* fields; with the separator "." the builder of topic "orders", event name
\* "created" and group ID "g1" gives "orders.created.g1".
C8_SlugIsTopicEventGroup ==
    /\ \A i \in Builders :
        slugs[i].called =>
            LET v == slugs[i].value
                lt == Len(slugs[i].topic)
                le == Len(slugs[i].eventName)
                lg == Len(slugs[i].groupID)
                ls == Len(slugSeparator)
            IN  /\ Len(v) = lt + ls + le + ls + lg
                /\ SubSeq(v, 1, lt) = slugs[i].topic
                /\ SubSeq(v, lt + 1, lt + ls) = slugSeparator
                /\ SubSeq(v, lt + ls + 1, lt + ls + le) = slugs[i].eventName
                /\ SubSeq(v, lt + ls + le + 1, lt + ls + le + ls) = slugSeparator
                /\ SubSeq(v, lt + ls + le + ls + 1, Len(v)) = slugs[i].groupID
                /\ (/\ slugSeparator = "." /\ slugs[i].topic = "orders"
                    /\ slugs[i].eventName = "created" /\ slugs[i].groupID = "g1")
                    => v = "orders.created.g1"
    /\ op.name = "Slug" => ret = [t |-> "string", v |-> slugs[op.recv].value]

\* the spec's example was computed
C8_Witness ==
    /\ op.name = "Slug"
    /\ sb[op.recv].topic = "orders" /\ sb[op.recv].eventName = "created"
    /\ sb[op.recv].groupID = "g1"
    /\ ret = [t |-> "string", v |-> "orders.created.g1"]

\* ---- C9 ----
\* C9: two SubscribeBuilders whose (topic, event name, group ID) differ have
\* different slugs, also when a field contains the separator or is empty.
C9_SlugIdentifiesSubscription ==
    \A i \in Builders, j \in Builders :
        (/\ slugs[i].called /\ slugs[j].called
         /\ <<slugs[i].topic, slugs[i].eventName, slugs[i].groupID>>
                # <<slugs[j].topic, slugs[j].eventName, slugs[j].groupID>>)
            => slugs[i].value # slugs[j].value

\* ---- C10 ----

\* what can be read through a builder: its fields and, behind the
\* references it holds, the maps and the diff
Observable(kind, i) ==
    CASE kind = "PublishBuilder" ->
            [fields |-> pb[i], payload |-> MapAt(heap, pb[i].payload),
             additionalFields |-> MapAt(heap, pb[i].additionalFields)]
      [] kind = "SubscribeBuilder" ->
            [fields |-> sb[i]]
      [] kind = "AuditLogBuilder" ->
            [fields |-> alb[i], content |-> MapAt(heap, alb[i].content),
             diff |-> DiffAt(heap, diffs, alb[i].diff)]

\* C10: a setter call or a Build on one builder changes nothing that can be
\* read through any other builder, also when both were given the same payload,
\* additional-fields, content or diff value.
C10_NoSharedMutableState ==
    [][ (IsSetterCall' \/ IsBuild') =>
            \A kind \in BuilderKinds, j \in Builders :
                (kind # op'.kind \/ j # op'.recv)
                    => Observable(kind, j)' = Observable(kind, j) ]_vars

\* Build succeeded on one of two AuditLogBuilders that hold the same content
\* map and the same diff, while two PublishBuilders hold the same payload
C10_Witness ==
    /\ IsBuild /\ ret.err = "nil"
    /\ alb[1].content # "nil" /\ alb[1].content = alb[2].content
    /\ alb[1].diff # "nil" /\ alb[1].diff = alb[2].diff
    /\ pb[1].payload # "nil" /\ pb[1].payload = pb[2].payload

\* ---- C11 ----

IsClientCall == op.kind = "Client"

OnBlackhole == cli.client = NewClient("", eventStreamNull, <<>>, "absent", "connected").client

\* C11: on the client NewClient returns for the backend "none", every
\* Publish, PublishSync and Register call, in any order and with any builder,
\* returns no error and leaves everything as it was: the builders, the maps
\* they hold, standard output, and the subscriber engine, which stays
\* unregistered, so that no callback is ever invoked.
C11_BlackholeIsNoOp ==
    [][ (OnBlackhole /\ IsClientCall') =>
            /\ ret'.err = "nil"
            /\ cli' = cli /\ cli.stdout = <<>>
            /\ eng' = eng /\ eng = EngineIdle
            /\ UNCHANGED <<pb, sb, alb, heap, diffs, slugs>> ]_vars

\* Publish, PublishSync and Register were all called on the no-op client, the
\* last one with the subscription that has a callback
C11_Witness ==
    /\ OnBlackhole
    /\ {<<"Client", 0, "Publish">>, <<"Client", 0, "PublishSync">>,
        <<"Client", 0, "Register">>} \subseteq DOMAIN lastArg
    /\ op.name = "Register" /\ op.arg.v = 2 /\ sb[2].callback = "cb1"
    /\ lastArg[<<"Client", 0, "Publish">>].v = 2 /\ pb[2].topic = "orders"
    /\ ret.err = "nil"
    /\ cli.stdout = <<>> /\ eng = EngineIdle

\* ---- C12 ----

\* the same map value: nil or not, and entry by entry
SameMap(a, b) ==
    /\ a.nil = b.nil
    /\ DOMAIN a.m = DOMAIN b.m
    /\ \A k \in DOMAIN a.m : SameValue(a.m[k], b.m[k])

\* a decoded AuditLog without its generated ID and its timestamp
ButIDAndTimestamp(auditLog) == [auditLog EXCEPT !.ID = "", !.Timestamp = 0]

\* two results of Build: both succeeded or both failed, and on success the
\* messages have the same key and the same fields but ID and timestamp
SameOutcome(first, second) ==
    /\ (first.err = "nil") <=> (second.err = "nil")
    /\ (first.err = "nil") =>
        /\ first.msg.Key = second.msg.Key
        /\ ButIDAndTimestamp(Unmarshal(first.msg.Value.json))
            = ButIDAndTimestamp(Unmarshal(second.msg.Value.json))

\* the content and diff maps hold what they held at the latest Build of builder i
MapsAsBuilt(i) ==
    /\ SameMap(built[i].content, MapAt(heap, alb[i].content))
    /\ SameMap(built[i].diff.Before, DiffAt(heap, diffs, alb[i].diff).Before)
    /\ SameMap(built[i].diff.After, DiffAt(heap, diffs, alb[i].diff).After)

\* C12 as stated: Build changes no field of its builder, and a Build that
\* follows another Build of the same builder with no setter call in between
\* has the same outcome: both succeed or both fail, and on success the two
\* messages have the same key and the same field values except the
\* generated ID and the timestamp.
C12_RebuildSameOutcome ==
    [][ IsBuild' =>
            /\ alb'[op'.recv] = alb[op'.recv]
            /\ built[op'.recv].done => SameOutcome(built[op'.recv], ret') ]_vars

\* C12 as amended: Build changes no field of its builder, nor the maps the
\* builder refers to; a Build that follows another Build of the same builder
\* with no setter call in between, and with the content and diff maps holding
\* the entries they held at the first Build, has the same outcome: both
\* succeed or both fail, and on success the two messages have the same key
\* and the same field values except the generated ID and the timestamp.
C12_RebuildOfUnchangedMaps ==
    [][ IsBuild' =>
            /\ alb'[op'.recv] = alb[op'.recv]
            /\ heap' = heap /\ diffs' = diffs
            /\ (built[op'.recv].done /\ MapsAsBuilt(op'.recv))
                => SameOutcome(built[op'.recv], ret') ]_vars

\* the second of two Builds with no setter call in between succeeded, on a
\* builder that holds a content map and a diff
C12_Witness ==
    /\ IsBuild /\ ret.err = "nil"
    /\ built[op.recv].n = 2
    /\ alb[op.recv].content = "m1" /\ alb[op.recv].diff = "d1"
    /\ ret.msg.Key = [nil |-> FALSE, bytes |-> "x"]
    /\ alb[op.recv].key = "x" /\ alb[op.recv].category = "x"

====
